---- MODULE Spec2Model ----
(***************************************************************************)
(* State machine of the Aircall webhook handler in main.py: the resolution *)
(* of a caller number to a US state (get_us_state_from_phone_number), the  *)
(* recording-status query (get_call_recording_status) and the handler      *)
(* handle_webhook, whose coroutine is suspended at each awaited remote     *)
(* call so that several deliveries interleave.                             *)
(*                                                                         *)
(* Python strings the code takes apart (phone numbers, geolocation         *)
(* descriptions, the default-behaviour setting, state codes) are sequences *)
(* of one-character strings.  The empty sequence stands for both None and  *)
(* "": the code only ever tests those values for truthiness.  Strings the  *)
(* code never takes apart (call identifiers, credentials) are TLA+ strings *)
(* with "" standing for None.                                              *)
(***************************************************************************)
EXTENDS Integers, Sequences, FiniteSets, TLC

\* ------------------------------------------------------------------ bounds
\* Number of webhook deliveries of one process lifetime that are modelled.
NumDeliveries == 2

Deliveries == 1..NumDeliveries

\* ----------------------------------------------------------------- strings
None == << >>

Truthy(s) == s # None

LowerLetters ==
  <<"a","b","c","d","e","f","g","h","i","j","k","l","m",
    "n","o","p","q","r","s","t","u","v","w","x","y","z">>

UpperLetters ==
  <<"A","B","C","D","E","F","G","H","I","J","K","L","M",
    "N","O","P","Q","R","S","T","U","V","W","X","Y","Z">>

Digits == {"0","1","2","3","4","5","6","7","8","9"}

Whitespace == {" "}

IndexOf(c, letters) == CHOOSE i \in 1..Len(letters) : letters[i] = c

\* str.upper(), one character
UpperChar(c) ==
  IF \E i \in 1..Len(LowerLetters) : LowerLetters[i] = c
    THEN UpperLetters[IndexOf(c, LowerLetters)]
    ELSE c

\* str.lower(), one character
LowerChar(c) ==
  IF \E i \in 1..Len(UpperLetters) : UpperLetters[i] = c
    THEN LowerLetters[IndexOf(c, UpperLetters)]
    ELSE c

\* str.upper()
Upper(s) == [i \in 1..Len(s) |-> UpperChar(s[i])]

\* str.lower()
Lower(s) == [i \in 1..Len(s) |-> LowerChar(s[i])]

\* str.startswith(prefix)
StartsWith(s, prefix) ==
  /\ Len(s) >= Len(prefix)
  /\ SubSeq(s, 1, Len(prefix)) = prefix

\* s[:n]
Prefix(s, n) == SubSeq(s, 1, IF Len(s) < n THEN Len(s) ELSE n)

\* str.split() with no separator: the words between runs of whitespace
RECURSIVE SplitFrom(_, _, _)
SplitFrom(s, i, word) ==
  IF i > Len(s)
    THEN IF word = << >> THEN << >> ELSE <<word>>
    ELSE IF s[i] \in Whitespace
           THEN (IF word = << >> THEN << >> ELSE <<word>>) \o SplitFrom(s, i + 1, << >>)
           ELSE SplitFrom(s, i + 1, Append(word, s[i]))

Split(s) == SplitFrom(s, 1, << >>)

\* ------------------------------------------------------- program constants
TWO_PARTY_STATES ==
  { <<"C", "A">>, <<"D", "E">>, <<"F", "L">>, <<"I", "L">>,
    <<"M", "D">>, <<"M", "A">>, <<"M", "I">>, <<"M", "T">>,
    <<"N", "H">>, <<"O", "R">>, <<"P", "A">>, <<"W", "A">>,
    <<"C", "T">> }

\* the (area code, state) entries of the dictionary
AreaCodeEntries ==
  { <<<<"2", "1", "3">>, <<"C", "A">>>>, <<<<"3", "1", "0">>, <<"C", "A">>>>,
    <<<<"4", "1", "5">>, <<"C", "A">>>>, <<<<"4", "0", "8">>, <<"C", "A">>>>,
    <<<<"8", "1", "8">>, <<"C", "A">>>>, <<<<"6", "1", "9">>, <<"C", "A">>>>,
    <<<<"5", "1", "0">>, <<"C", "A">>>>, <<<<"2", "0", "3">>, <<"C", "T">>>>,
    <<<<"8", "6", "0">>, <<"C", "T">>>>, <<<<"3", "0", "2">>, <<"D", "E">>>>,
    <<<<"3", "0", "5">>, <<"F", "L">>>>, <<<<"4", "0", "7">>, <<"F", "L">>>>,
    <<<<"5", "6", "1">>, <<"F", "L">>>>, <<<<"8", "1", "3">>, <<"F", "L">>>>,
    <<<<"9", "0", "4">>, <<"F", "L">>>>, <<<<"3", "1", "2">>, <<"I", "L">>>>,
    <<<<"7", "7", "3">>, <<"I", "L">>>>, <<<<"8", "4", "7">>, <<"I", "L">>>>,
    <<<<"3", "0", "1">>, <<"M", "D">>>>, <<<<"4", "1", "0">>, <<"M", "D">>>>,
    <<<<"4", "4", "3">>, <<"M", "D">>>>, <<<<"6", "1", "7">>, <<"M", "A">>>>,
    <<<<"7", "8", "1">>, <<"M", "A">>>>, <<<<"5", "0", "8">>, <<"M", "A">>>>,
    <<<<"3", "1", "3">>, <<"M", "I">>>>, <<<<"2", "4", "8">>, <<"M", "I">>>>,
    <<<<"7", "3", "4">>, <<"M", "I">>>>, <<<<"4", "0", "6">>, <<"M", "T">>>>,
    <<<<"6", "0", "3">>, <<"N", "H">>>>, <<<<"5", "0", "3">>, <<"O", "R">>>>,
    <<<<"5", "4", "1">>, <<"O", "R">>>>, <<<<"9", "7", "1">>, <<"O", "R">>>>,
    <<<<"2", "1", "5">>, <<"P", "A">>>>, <<<<"4", "1", "2">>, <<"P", "A">>>>,
    <<<<"7", "1", "7">>, <<"P", "A">>>>, <<<<"6", "1", "0">>, <<"P", "A">>>>,
    <<<<"2", "0", "6">>, <<"W", "A">>>>, <<<<"2", "5", "3">>, <<"W", "A">>>>,
    <<<<"4", "2", "5">>, <<"W", "A">>>>, <<<<"2", "1", "2">>, <<"N", "Y">>>>,
    <<<<"6", "4", "6">>, <<"N", "Y">>>>, <<<<"7", "1", "8">>, <<"N", "Y">>>>,
    <<<<"2", "1", "4">>, <<"T", "X">>>>, <<<<"5", "1", "2">>, <<"T", "X">>>>,
    <<<<"7", "1", "3">>, <<"T", "X">>>>, <<<<"7", "0", "3">>, <<"V", "A">>>>,
    <<<<"8", "0", "4">>, <<"V", "A">>>> }

\* AREA_CODE_TO_STATE.get(area_code): None for a key that is absent
AREA_CODE_TO_STATE(area_code) ==
  IF \E e \in AreaCodeEntries : e[1] = area_code
    THEN (CHOOSE e \in AreaCodeEntries : e[1] = area_code)[2]
    ELSE None

Str_skip == <<"s", "k", "i", "p">>

Str_record == <<"r", "e", "c", "o", "r", "d">>

Str_Record_Mixed == <<"R", "e", "c", "o", "r", "d">>

Str_pause == <<"p", "a", "u", "s", "e">>

Str_unknown == <<"u", "n", "k", "n", "o", "w", "n">>

Num_CA == <<"+", "1", "2", "1", "3", "5", "5", "5", "0", "1", "0", "0">>

Num_NY == <<"+", "1", "2", "1", "2", "5", "5", "5", "1", "2", "3", "4">>

Num_OH == <<"+", "1", "6", "1", "4", "5", "5", "5", "0", "1", "0", "0">>

Num_WA == <<"+", "1", "2", "0", "6", "5", "5", "5", "0", "1", "0", "0">>

Num_999 == <<"+", "1", "9", "9", "9", "5", "5", "5", "0", "1", "0", "0">>

Num_UK == <<"+", "4", "4", "2", "0", "7", "9", "4", "6", "0", "0", "0", "0">>

Num_NoPlus == <<"1", "2", "1", "3", "5", "5", "5", "0", "1", "0", "0">>

Num_Formatted == <<"+", "1", " ", "(", "2", "1", "3", ")", " ", "5", "5", "5", "-", "0", "1", "0", "0">>

Desc_California == <<"C", "a", "l", "i", "f", "o", "r", "n", "i", "a">>

Desc_LosAngeles == <<"L", "o", "s", " ", "A", "n", "g", "e", "l", "e", "s", ",", " ", "C", "A">>

Desc_NewYork == <<"N", "e", "w", " ", "Y", "o", "r", "k", ",", " ", "N", "Y">>

Desc_Ohio == <<"O", "h", "i", "o">>

Desc_WashingtonState == <<"W", "a", "s", "h", "i", "n", "g", "t", "o", "n", " ", "S", "t", "a", "t", "e">>

Desc_Seattle == <<"S", "e", "a", "t", "t", "l", "e", ",", " ", "W", "A">>

Num_Short == <<"+", "1">>

\* ------------------------------------------------ the phonenumbers library
IsDigit(c) == c \in Digits

\* phonenumbers.parse(phone_number, "US").national_number for a number that
\* starts with "+1": the digits that follow the country code, formatting
\* characters dropped.
NationalNumber(phone_number) ==
  LET digits == SelectSeq(phone_number, IsDigit)
  IN  SubSeq(digits, 2, Len(digits))

\* phonenumbers.parse raises NumberParseException when fewer than two digits
\* follow the country code.
ParseRaises(phone_number) == Len(NationalNumber(phone_number)) < 2

\* Area codes for which the library's US metadata has numbers: those of the
\* table and 614 (Ohio), which the table lacks.  999 is not assigned.
AssignedAreaCodes == { e[1] : e \in AreaCodeEntries } \cup { <<"6", "1", "4">> }

\* phonenumbers.is_valid_number
IsValidNumber(phone_number) ==
  /\ Len(NationalNumber(phone_number)) = 10
  /\ Prefix(NationalNumber(phone_number), 3) \in AssignedAreaCodes

\* geocoder.description_for_number(parsed_number, "en"): the descriptions the
\* lookup may give for a valid number; the library's data is not part of the
\* program, so any of them may come back, the empty one included.
GeoDescriptions(phone_number) ==
  LET area_code == Prefix(NationalNumber(phone_number), 3)
  IN  {None} \cup
      CASE area_code = <<"2", "1", "3">> -> {Desc_California, Desc_LosAngeles}
        [] area_code = <<"2", "1", "2">> -> {Desc_NewYork}
        [] area_code = <<"6", "1", "4">> -> {Desc_Ohio}
        [] area_code = <<"2", "0", "6">> -> {Desc_WashingtonState, Desc_Seattle}
        [] OTHER -> {}

Descriptions ==
  {None, Desc_California, Desc_LosAngeles, Desc_NewYork, Desc_Ohio,
   Desc_WashingtonState, Desc_Seattle}

\* What the lookup gives in the deliveries that run side by side.
ConcurrentDescriptions == {None, Desc_LosAngeles}

\* ------------------------------------------- get_us_state_from_phone_number
\* state_province.split()[-1].upper(); an empty split raises IndexError,
\* which the handler of Exception turns into None.
LastWordUpper(description) ==
  LET words == Split(description)
  IN  IF words = << >> THEN None ELSE Upper(words[Len(words)])

\* str(phonenumbers.national_number(parsed_number))[:3]
AreaCodeOf(phone_number) == Prefix(NationalNumber(phone_number), 3)

\* The state for phone_number when the geolocation lookup gives description.
get_us_state_from_phone_number(phone_number, description) ==
  IF ~Truthy(phone_number) THEN None
  ELSE IF ParseRaises(phone_number) THEN None
  ELSE IF ~IsValidNumber(phone_number) THEN None
  ELSE IF Truthy(description) THEN LastWordUpper(description)
  ELSE AREA_CODE_TO_STATE(AreaCodeOf(phone_number))

\* ------------------------------------------------------------ the payload
CallIds == {"c1", "c2"}

PhoneNumbers ==
  {None, Num_UK, Num_NoPlus, Num_Short, Num_CA, Num_Formatted, Num_NY,
   Num_OH, Num_WA, Num_999}

External(n) == [type |-> "external", has_phone_number |-> TRUE, phone_number |-> n]

Internal(n) == [type |-> "user", has_phone_number |-> TRUE, phone_number |-> n]

ExternalNoNumber == [type |-> "external", has_phone_number |-> FALSE, phone_number |-> None]

ParticipantLists(n) ==
  { << >>, <<External(n)>>, <<Internal(Num_NY), External(n)>>,
    <<ExternalNoNumber, External(n)>>, <<Internal(n)>> }

\* payload["data"]: the call identifier ("" when absent), raw_digits (None
\* when absent) and the participants list.
Payloads ==
  { [id |-> i, raw_digits |-> n, participants |-> << >>] :
      i \in CallIds \cup {""}, n \in PhoneNumbers }
  \cup
  { [id |-> i, raw_digits |-> None, participants |-> ps] :
      i \in CallIds \cup {""}, ps \in UNION { ParticipantLists(n) : n \in PhoneNumbers } }

\* The payloads of the deliveries that run side by side: a number of a
\* one-party state, of a two-party state and one that resolves to no state,
\* for each call identifier.
ConcurrentPayloads ==
  { [id |-> i, raw_digits |-> n, participants |-> << >>] :
      i \in CallIds, n \in {Num_NY, Num_CA, Num_999} }

\* The event kinds of the request bodies; the handler reads none of them.
EventKinds == {"call.answered", "user.created"}

\* The event kind of the deliveries that run side by side.
ConcurrentEventKinds == {"call.answered"}

\* `payload.get("data", {})` of a body without "data": every field absent
EmptyCallData == [id |-> "", raw_digits |-> None, participants |-> << >>]

\* The request bodies: the event kind and the call data, which may be missing.
RequestBodies ==
  { [event |-> e, has_data |-> TRUE, data |-> call_data] :
      e \in EventKinds, call_data \in Payloads }
  \cup
  { [event |-> e, has_data |-> FALSE, data |-> EmptyCallData] : e \in EventKinds }

ConcurrentRequestBodies ==
  { [event |-> e, has_data |-> TRUE, data |-> call_data] :
      e \in ConcurrentEventKinds, call_data \in ConcurrentPayloads }

\* `call_data = payload.get("data", {})`
CallDataOf(payload) == IF payload.has_data THEN payload.data ELSE EmptyCallData

\* The loop over call_data["participants"]: the number of the first external
\* participant that has one, else what raw_digits held.
RECURSIVE FirstExternal(_, _)
FirstExternal(participants, otherwise) ==
  IF participants = << >> THEN otherwise
  ELSE IF Head(participants).type = "external" /\ Head(participants).has_phone_number
         THEN Head(participants).phone_number
         ELSE FirstExternal(Tail(participants), otherwise)

ExtractPhoneNumber(call_data) ==
  IF Truthy(call_data.raw_digits)
    THEN call_data.raw_digits
    ELSE FirstExternal(call_data.participants, call_data.raw_digits)

\* ---------------------------------------------------------- configuration
\* The lookup of the environment with "record" as the fallback.
GetEnvDefaultRecord(env, default) == IF env = << >> THEN Str_record ELSE env[1]

\* os.getenv(name, default): the environment holds << >> (unset) or <<value>>
GetEnv(env, default) == IF env = << >> THEN default ELSE env[1]

EnvBehaviors ==
  { << >>, <<Str_skip>>, <<Str_record>>, <<Str_Record_Mixed>>, <<Str_pause>> }

\* The settings under which deliveries are run side by side.
ConcurrentEnvBehaviors == { << >>, <<Str_record>> }

\* ------------------------------------------------------------- responses
StatusResponse(status, code) == [status_code |-> code, content |-> [status |-> status]]

RecordingResponse(rec, st) ==
  [status_code |-> 200, content |-> [recording |-> rec, state |-> st]]

\* --------------------------------------------------------------- state
VARIABLES
  env_behavior,               \* DEFAULT_RECORDING_DEFAULT_BEHAVIOR in the environment
  AIRCALL_API_ID,             \* "" when not configured
  AIRCALL_API_TOKEN,          \* "" when not configured
  DEFAULT_RECORDING_BEHAVIOR,
  recording,                  \* the platform's recording flag of each call
  pc,                         \* where each delivery's coroutine stands
  event,                      \* the event kind of the request body
  call_id,
  phone_number,
  state_province,             \* what the geolocation lookup gave for the number
  state,
  current_recording_status,   \* "unset" before the query, then "True", "False" or "None"
  requests,                   \* the remote requests each delivery has issued, in order
  results,                    \* how each of them that has returned came out: "2xx" or "failed"
  responses,                  \* the responses each delivery has returned, in order
  finished_before             \* the deliveries that had returned when this one arrived

vars ==
  <<env_behavior, AIRCALL_API_ID, AIRCALL_API_TOKEN, DEFAULT_RECORDING_BEHAVIOR,
    recording, pc, event, call_id, phone_number, state_province, state,
    current_recording_status, requests, results, responses, finished_before>>

config == <<env_behavior, AIRCALL_API_ID, AIRCALL_API_TOKEN, DEFAULT_RECORDING_BEHAVIOR>>

\* The process after the module is loaded, no delivery received yet.
InitWith(behaviors) ==
  /\ env_behavior \in behaviors
  /\ AIRCALL_API_ID \in {"", "api_id"}
  /\ AIRCALL_API_TOKEN \in {"", "api_token"}
  /\ DEFAULT_RECORDING_BEHAVIOR = Lower(GetEnv(env_behavior, Str_skip))
  /\ recording \in [CallIds -> BOOLEAN]
  /\ pc = [d \in Deliveries |-> "idle"]
  /\ event = [d \in Deliveries |-> ""]
  /\ call_id = [d \in Deliveries |-> ""]
  /\ phone_number = [d \in Deliveries |-> None]
  /\ state_province = [d \in Deliveries |-> None]
  /\ state = [d \in Deliveries |-> None]
  /\ current_recording_status = [d \in Deliveries |-> "unset"]
  /\ requests = [d \in Deliveries |-> << >>]
  /\ results = [d \in Deliveries |-> << >>]
  /\ responses = [d \in Deliveries |-> << >>]
  /\ finished_before = [d \in Deliveries |-> {}]

Init == InitWith(ConcurrentEnvBehaviors)

InitDelivery == InitWith(EnvBehaviors)

\* --------------------------------------------------------- the handler
\* The check with the call identifier left out.
CredentialsOnly(cid) ==
  /\ AIRCALL_API_ID # ""
  /\ AIRCALL_API_TOKEN # ""

\* `AIRCALL_API_ID and AIRCALL_API_TOKEN and call_id`
CredentialsAndCallId(cid) ==
  /\ AIRCALL_API_ID # ""
  /\ AIRCALL_API_TOKEN # ""
  /\ cid # ""

\* The early return of get_call_recording_status taken on every call.
StatusQueryAlwaysSkipped(cid) == TRUE

\* get_call_recording_status returns None without a request when
\* `not AIRCALL_API_ID or not AIRCALL_API_TOKEN or not call_id`
StatusQuerySkipped(cid) ==
  \/ AIRCALL_API_ID = ""
  \/ AIRCALL_API_TOKEN = ""
  \/ cid = ""

\* The prefix test with the country code left out of the prefix.
IsNonUsNumberPlusOnly(pn) == ~Truthy(pn) \/ ~StartsWith(pn, <<"+">>)

\* `phone_number.startswith("+1")` guarded by `not phone_number`
IsNonUsNumber(pn) == ~Truthy(pn) \/ ~StartsWith(pn, <<"+", "1">>)

\* The membership test with CA missing from the set.
IsTwoPartyStateWithoutCA(st) == st \in TWO_PARTY_STATES \ { <<"C", "A">> }

\* `state in TWO_PARTY_STATES`
IsTwoPartyState(st) == st \in TWO_PARTY_STATES

\* `state and state not in TWO_PARTY_STATES`
IsOnePartyState(st) == Truthy(st) /\ st \notin TWO_PARTY_STATES

\* `DEFAULT_RECORDING_BEHAVIOR == "record"`
DefaultIsRecord == DEFAULT_RECORDING_BEHAVIOR = Str_record

\* The idempotency check written as a comparison with False.
EnableOnlyWhenFalse(status) == status = "False"

\* The idempotency check dropped: the PATCH is sent whatever the status.
EnableAlways(status) == TRUE

\* `current_recording_status is not True`
EnableNeeded(status) == status # "True"

NonUsResponse == StatusResponse("non_us_number", 200)

TwoPartyResponse(st) == RecordingResponse(FALSE, st)

\* The response of the one-party branch copied from the default branch.
OnePartyResponseCopied(st) == RecordingResponse(TRUE, Str_unknown)

OnePartyResponse(st) == RecordingResponse(TRUE, st)

\* The response of the default branch carrying the unresolved state itself.
DefaultRecordResponseStateNone == RecordingResponse(TRUE, None)

DefaultRecordResponse == RecordingResponse(TRUE, Str_unknown)

UnknownStateResponse == StatusResponse("unknown_state", 200)

\* The delivery returns resp.
Return(d, resp) ==
  /\ pc' = [pc EXCEPT ![d] = "done"]
  /\ responses' = [responses EXCEPT ![d] = Append(@, resp)]

\* The delivery issues a remote request and is suspended at where.
Await(d, method, where) ==
  /\ pc' = [pc EXCEPT ![d] = where]
  /\ requests' = [requests EXCEPT ![d] = Append(@, method)]
  /\ UNCHANGED responses

\* The enabling code of a branch from its credentials check on: the status
\* query is awaited, or skipped inside get_call_recording_status and the
\* PATCH sent at once, or no remote call is made and the branch returns resp.
StartEnable(d, cid, at_query, at_enable, resp) ==
  IF CredentialsAndCallId(cid)
    THEN IF StatusQuerySkipped(cid)
           THEN /\ current_recording_status' = [current_recording_status EXCEPT ![d] = "None"]
                /\ Await(d, "PATCH", at_enable)
           ELSE /\ Await(d, "GET", at_query)
                /\ UNCHANGED current_recording_status
    ELSE /\ Return(d, resp)
         /\ UNCHANGED <<current_recording_status, requests>>

\* handle_webhook from the request's arrival to its first awaited remote call
\* or its return.  Deliveries are numbered in the order they arrive.
HandleWebhook(d, payload, description) ==
  /\ pc[d] = "idle"
  /\ \A e \in Deliveries : e < d => pc[e] # "idle"
  /\ event' = [event EXCEPT ![d] = payload.event]
  /\ LET call_data == CallDataOf(payload)
         cid == call_data.id
         pn  == ExtractPhoneNumber(call_data)
         st  == get_us_state_from_phone_number(pn, description)
     IN  /\ description \in GeoDescriptions(pn)
         /\ state_province' = [state_province EXCEPT ![d] = description]
         /\ call_id' = [call_id EXCEPT ![d] = cid]
         /\ phone_number' = [phone_number EXCEPT ![d] = pn]
         /\ finished_before' = [finished_before EXCEPT ![d] = {e \in Deliveries : pc[e] = "done"}]
         /\ IF IsNonUsNumber(pn)
              THEN /\ Return(d, NonUsResponse)
                   /\ UNCHANGED <<state, current_recording_status, requests>>
              ELSE /\ state' = [state EXCEPT ![d] = st]
                   /\ IF IsTwoPartyState(st)
                        THEN /\ Return(d, TwoPartyResponse(st))
                             /\ UNCHANGED <<current_recording_status, requests>>
                        ELSE IF IsOnePartyState(st)
                          THEN StartEnable(d, cid, "status_query", "enable", OnePartyResponse(st))
                          ELSE IF DefaultIsRecord
                            THEN StartEnable(d, cid, "default_status_query", "default_enable",
                                             DefaultRecordResponse)
                            ELSE /\ Return(d, UnknownStateResponse)
                                 /\ UNCHANGED <<current_recording_status, requests>>
  /\ UNCHANGED <<config, recording, results>>

\* What the awaited GET can come to: a 2xx JSON body with the recording field,
\* one without it, a non-2xx status, a network error, a body that is no JSON.
GetOutcomes == {"ok", "no_field", "http_status_error", "network_error", "invalid_json"}

\* raise_for_status() and response.json() passed, or an exception was caught
GetResult(outcome) == IF outcome \in {"ok", "no_field"} THEN "2xx" ELSE "failed"

\* get_call_recording_status from the return of its GET
StatusResult(cid, outcome) ==
  IF outcome = "ok"
    THEN IF recording[cid] THEN "True" ELSE "False"
    ELSE "None"

\* The status query of the branch returns; the PATCH is sent unless the call
\* is reported as recording, in which case the branch returns resp.
AfterStatusQuery(d, outcome, at_enable, resp) ==
  LET status == StatusResult(call_id[d], outcome)
  IN  /\ current_recording_status' = [current_recording_status EXCEPT ![d] = status]
      /\ IF EnableNeeded(status)
           THEN Await(d, "PATCH", at_enable)
           ELSE /\ Return(d, resp)
                /\ UNCHANGED requests
      /\ results' = [results EXCEPT ![d] = Append(@, GetResult(outcome))]
      /\ UNCHANGED <<config, recording, event, call_id, phone_number, state_province,
                     state, finished_before>>

\* What the awaited PATCH can come to.
PatchOutcomes == {"ok", "http_error_status", "network_error", "unexpected_error"}

\* `response.status_code >= 400` or an exception is logged as an error
PatchResult(outcome) == IF outcome = "ok" THEN "2xx" ELSE "failed"

\* The platform's flag after the PATCH {"recording": true}
PatchEffect(cid, outcome) ==
  IF outcome = "ok" THEN [recording EXCEPT ![cid] = TRUE] ELSE recording

\* The PATCH returns and a failed one is sent a second time.
AfterEnableRetry(d, outcome, resp) ==
  /\ IF PatchResult(outcome) = "failed" /\ Len(requests[d]) < 3
       THEN /\ Await(d, "PATCH", pc[d])
            /\ UNCHANGED recording
       ELSE /\ recording' = PatchEffect(call_id[d], outcome)
            /\ Return(d, resp)
            /\ UNCHANGED requests
  /\ results' = [results EXCEPT ![d] = Append(@, PatchResult(outcome))]
  /\ UNCHANGED <<config, event, call_id, phone_number, state_province, state,
                 current_recording_status, finished_before>>

\* The PATCH returns and a failure is turned into the response.
AfterEnableFailureReported(d, outcome, resp) ==
  /\ recording' = PatchEffect(call_id[d], outcome)
  /\ IF PatchResult(outcome) = "failed"
       THEN Return(d, StatusResponse("remote_error", 500))
       ELSE Return(d, resp)
  /\ results' = [results EXCEPT ![d] = Append(@, PatchResult(outcome))]
  /\ UNCHANGED <<config, event, call_id, phone_number, state_province, state,
                 current_recording_status, requests, finished_before>>

\* The PATCH returns with no handler for an unexpected exception: it escapes
\* the coroutine, which ends without a response.
AfterEnableUncaught(d, outcome, resp) ==
  /\ recording' = PatchEffect(call_id[d], outcome)
  /\ IF outcome = "unexpected_error"
       THEN /\ pc' = [pc EXCEPT ![d] = "aborted"]
            /\ UNCHANGED responses
       ELSE Return(d, resp)
  /\ results' = [results EXCEPT ![d] = Append(@, PatchResult(outcome))]
  /\ UNCHANGED <<config, event, call_id, phone_number, state_province, state,
                 current_recording_status, requests, finished_before>>

\* The PATCH of the branch returns, whatever its outcome the branch returns resp.
AfterEnable(d, outcome, resp) ==
  /\ recording' = PatchEffect(call_id[d], outcome)
  /\ Return(d, resp)
  /\ results' = [results EXCEPT ![d] = Append(@, PatchResult(outcome))]
  /\ UNCHANGED <<config, event, call_id, phone_number, state_province, state,
                 current_recording_status, requests, finished_before>>

\* The status query answered only once the remote calls of the deliveries
\* that arrived earlier are over, as over one connection used in turn.
StatusQueryReturnsInTurn(d, outcome) ==
  /\ \A e \in Deliveries : e < d => pc[e] \in {"idle", "done"}
  /\ pc[d] = "status_query"
  /\ AfterStatusQuery(d, outcome, "enable", OnePartyResponse(state[d]))

\* one-party branch
StatusQueryReturns(d, outcome) ==
  /\ pc[d] = "status_query"
  /\ AfterStatusQuery(d, outcome, "enable", OnePartyResponse(state[d]))

EnableReturns(d, outcome) ==
  /\ pc[d] = "enable"
  /\ AfterEnable(d, outcome, OnePartyResponse(state[d]))

\* unknown-state branch with the default behaviour "record"
DefaultStatusQueryReturns(d, outcome) ==
  /\ pc[d] = "default_status_query"
  /\ AfterStatusQuery(d, outcome, "default_enable", DefaultRecordResponse)

DefaultEnableReturns(d, outcome) ==
  /\ pc[d] = "default_enable"
  /\ AfterEnable(d, outcome, DefaultRecordResponse)

\* Deliveries side by side.
Next ==
  \/ \E d \in Deliveries, payload \in ConcurrentRequestBodies,
          description \in ConcurrentDescriptions :
       HandleWebhook(d, payload, description)
  \/ \E d \in Deliveries, outcome \in GetOutcomes : StatusQueryReturns(d, outcome)
  \/ \E d \in Deliveries, outcome \in PatchOutcomes : EnableReturns(d, outcome)
  \/ \E d \in Deliveries, outcome \in GetOutcomes : DefaultStatusQueryReturns(d, outcome)
  \/ \E d \in Deliveries, outcome \in PatchOutcomes : DefaultEnableReturns(d, outcome)

Spec == Init /\ [][Next]_vars

\* One delivery, over every payload.
NextDelivery ==
  \/ \E payload \in RequestBodies, description \in Descriptions :
       HandleWebhook(1, payload, description)
  \/ \E outcome \in GetOutcomes : StatusQueryReturns(1, outcome)
  \/ \E outcome \in PatchOutcomes : EnableReturns(1, outcome)
  \/ \E outcome \in GetOutcomes : DefaultStatusQueryReturns(1, outcome)
  \/ \E outcome \in PatchOutcomes : DefaultEnableReturns(1, outcome)

SpecDelivery == InitDelivery /\ [][NextDelivery]_vars

\* An awaited remote call of the delivery returns.
RemoteCallReturns(d) ==
  \/ \E outcome \in GetOutcomes : StatusQueryReturns(d, outcome)
  \/ \E outcome \in PatchOutcomes : EnableReturns(d, outcome)
  \/ \E outcome \in GetOutcomes : DefaultStatusQueryReturns(d, outcome)
  \/ \E outcome \in PatchOutcomes : DefaultEnableReturns(d, outcome)

\* One delivery whose remote calls all return: the event loop resumes the
\* coroutine once the awaited call has come back.
SpecDeliveryFair == SpecDelivery /\ WF_vars(RemoteCallReturns(1))

\* Deliveries side by side in a process where both enabling branches make
\* their remote calls: credentials configured, default behaviour "record",
\* no call recording yet.
InitRemote ==
  /\ Init
  /\ AIRCALL_API_ID # ""
  /\ AIRCALL_API_TOKEN # ""
  /\ DEFAULT_RECORDING_BEHAVIOR = Str_record
  /\ recording = [c \in CallIds |-> FALSE]

\* Their request bodies: call "c1" from a one-party state and call "c2" from
\* a number that resolves to no state, one for each enabling branch.
RemoteRequestBodies ==
  { payload \in ConcurrentRequestBodies :
      <<payload.data.id, payload.data.raw_digits>> \in {<<"c1", Num_NY>>, <<"c2", Num_999>>} }

NextRemote ==
  \/ \E d \in Deliveries, payload \in RemoteRequestBodies : HandleWebhook(d, payload, None)
  \/ \E d \in Deliveries : RemoteCallReturns(d)

SpecRemote == InitRemote /\ [][NextRemote]_vars

\* ===================================================================
\* Claims
\* ===================================================================
Received(d) == pc[d] # "idle"

Done(d) == pc[d] = "done"

Issued(d, method) == \E i \in 1..Len(requests[d]) : requests[d][i] = method

Count(d, method) == Cardinality({ i \in 1..Len(requests[d]) : requests[d][i] = method })

CredentialsConfigured == AIRCALL_API_ID # "" /\ AIRCALL_API_TOKEN # ""

\* the number begins with "+1"
IsUsNumber(pn) == Len(pn) >= 2 /\ pn[1] = "+" /\ pn[2] = "1"

\* spaces, hyphens and parentheses stripped
IsSignificant(c) == c \notin {" ", "-", "(", ")"}

Normalized(pn) == SelectSeq(pn, IsSignificant)

\* The two-letter abbreviations of the US states, the federal district and
\* the territories.
UsStateCodes ==
  { <<"A", "L">>, <<"A", "K">>, <<"A", "Z">>, <<"A", "R">>, <<"C", "A">>,
    <<"C", "O">>, <<"C", "T">>, <<"D", "E">>, <<"F", "L">>, <<"G", "A">>,
    <<"H", "I">>, <<"I", "D">>, <<"I", "L">>, <<"I", "N">>, <<"I", "A">>,
    <<"K", "S">>, <<"K", "Y">>, <<"L", "A">>, <<"M", "E">>, <<"M", "D">>,
    <<"M", "A">>, <<"M", "I">>, <<"M", "N">>, <<"M", "S">>, <<"M", "O">>,
    <<"M", "T">>, <<"N", "E">>, <<"N", "V">>, <<"N", "H">>, <<"N", "J">>,
    <<"N", "M">>, <<"N", "Y">>, <<"N", "C">>, <<"N", "D">>, <<"O", "H">>,
    <<"O", "K">>, <<"O", "R">>, <<"P", "A">>, <<"R", "I">>, <<"S", "C">>,
    <<"S", "D">>, <<"T", "N">>, <<"T", "X">>, <<"U", "T">>, <<"V", "T">>,
    <<"V", "A">>, <<"W", "A">>, <<"W", "V">>, <<"W", "I">>, <<"W", "Y">>,
    <<"D", "C">>, <<"P", "R">>, <<"G", "U">>, <<"V", "I">>, <<"A", "S">>,
    <<"M", "P">> }

\* C1: a delivery whose caller number resolved to a state of the two-party
\* set, by the geolocation lookup or by the area-code table, never issues the
\* enable command (PATCH) and answers {"recording": false, "state": <state>}
\* with status 200.
C1_TwoPartyNeverEnabled ==
  \A d \in Deliveries :
    (Received(d) /\ state[d] \in TWO_PARTY_STATES) =>
      /\ ~Issued(d, "PATCH")
      /\ responses[d] =
           << [status_code |-> 200,
               content |-> [recording |-> FALSE, state |-> state[d]]] >>

\* C1 witness: with credentials and call identifier present, a number the
\* lookup described as "Los Angeles, CA" resolved to CA and was answered.
C1_Witness ==
  /\ CredentialsConfigured
  /\ call_id[1] # ""
  /\ state_province[1] = Desc_LosAngeles
  /\ state[1] = <<"C", "A">>
  /\ Done(1)

\* C2: the state get_us_state_from_phone_number produces is a canonical
\* two-letter US state or territory abbreviation, or the absence value; no
\* place name or fragment of one reaches the consent decision.
C2_StateIsCanonicalOrUnknown ==
  \A d \in Deliveries : state[d] = None \/ state[d] \in UsStateCodes

\* C3: a delivery whose phone number is absent or does not begin with "+1"
\* once its formatting characters are stripped answers
\* {"status": "non_us_number"} with status 200 and issues no remote call.
C3_NonUsNumberNoRemoteCalls ==
  \A d \in Deliveries :
    (Received(d) /\ ~IsUsNumber(Normalized(phone_number[d]))) =>
      /\ requests[d] = << >>
      /\ responses[d] =
           << [status_code |-> 200, content |-> [status |-> "non_us_number"]] >>

\* C3 witness: a number from abroad was answered while the credentials were
\* configured, the call identifier present and the default behaviour "record".
C3_Witness ==
  /\ CredentialsConfigured
  /\ call_id[1] # ""
  /\ DEFAULT_RECORDING_BEHAVIOR = Str_record
  /\ phone_number[1] = Num_UK
  /\ Done(1)

\* the second delivery arrived after the first had returned
Sequential(d1, d2) == d1 \in finished_before[d2]

\* the delivery went down an enabling branch past its credentials check
EnablePathRun(d) == Done(d) /\ Issued(d, "GET")

\* C4: of the deliveries that carry the same call identifier, every one after
\* the first answers {"status": "duplicate_skipped"} and issues no remote call.
C4_DuplicateSkipped ==
  \A d1, d2 \in Deliveries :
    (d1 < d2 /\ Done(d2) /\ call_id[d1] = call_id[d2]) =>
      /\ requests[d2] = << >>
      /\ responses[d2] =
           << [status_code |-> 200, content |-> [status |-> "duplicate_skipped"]] >>

\* C5: of two deliveries for the same call identifier that are handled at the
\* same time, at most one issues remote calls.
C5_AtMostOneWinner ==
  \A d1, d2 \in Deliveries :
    (d1 < d2 /\ Received(d2) /\ ~Sequential(d1, d2) /\ call_id[d1] = call_id[d2]) =>
      ~(requests[d1] # << >> /\ requests[d2] # << >>)

\* C6 as claimed: when the enabling path runs twice in succession for the same
\* call identifier and the first run sent the enable command, the second run
\* sends none.
C6_SecondEnableSkipped ==
  \A d1, d2 \in Deliveries :
    ( /\ Sequential(d1, d2) /\ call_id[d1] = call_id[d2]
      /\ EnablePathRun(d1) /\ EnablePathRun(d2)
      /\ Issued(d1, "PATCH") ) =>
      ~Issued(d2, "PATCH")

\* C6 as amended: when the enabling path runs twice in succession for the same
\* call identifier, the platform accepted the enable command of the first run
\* and the status query of the second run returns the recording flag, then
\* that flag is true, the second run sends no enable command and the two runs
\* send exactly one between them; and a run of the pair sends the enable
\* command exactly when its status query did not return true.
C6_SecondEnableSkippedWhenAccepted ==
  \A d1, d2 \in Deliveries :
    ( /\ Sequential(d1, d2) /\ call_id[d1] = call_id[d2]
      /\ EnablePathRun(d1) /\ EnablePathRun(d2) ) =>
      /\ ( /\ Issued(d1, "PATCH") /\ results[d1] = <<results[d1][1], "2xx">>
           /\ current_recording_status[d2] \in {"True", "False"} ) =>
           /\ current_recording_status[d2] = "True"
           /\ Count(d1, "PATCH") + Count(d2, "PATCH") = 1
      /\ Issued(d2, "PATCH") <=> current_recording_status[d2] # "True"
      /\ Issued(d1, "PATCH") <=> current_recording_status[d1] # "True"

\* C6 witness: the first run's enable command was accepted and the second
\* run, started after it, was skipped on a status of true.
C6_Witness ==
  /\ Sequential(1, 2) /\ call_id[1] = call_id[2]
  /\ EnablePathRun(1) /\ EnablePathRun(2)
  /\ requests[1] = <<"GET", "PATCH">> /\ results[1] = <<"2xx", "2xx">>
  /\ current_recording_status[1] = "False"
  /\ current_recording_status[2] = "True"
  /\ requests[2] = <<"GET">>

\* C7: with the default-behaviour setting "skip" or not configured, a US
\* number whose state is not resolved answers {"status": "unknown_state"}
\* with status 200 and no enable command is issued.
C7_SkipDefaultNeverEnables ==
  \A d \in Deliveries :
    ( /\ Received(d)
      /\ env_behavior \in { << >>, <<Str_skip>> }
      /\ IsUsNumber(phone_number[d])
      /\ state[d] = None ) =>
      /\ ~Issued(d, "PATCH")
      /\ responses[d] =
           << [status_code |-> 200, content |-> [status |-> "unknown_state"]] >>

\* C7 witness: nothing configured as the default behaviour, credentials and
\* call identifier present, and a number with the unassigned area code 999
\* was answered.
C7_Witness ==
  /\ env_behavior = << >>
  /\ CredentialsConfigured
  /\ call_id[1] # ""
  /\ phone_number[1] = Num_999
  /\ Done(1)

\* the unknown-state branch with the default behaviour "record" was taken
DefaultRecordRun(d) ==
  /\ Done(d)
  /\ DEFAULT_RECORDING_BEHAVIOR = Str_record
  /\ IsUsNumber(phone_number[d])
  /\ state[d] = None

\* C8 as claimed: with the default behaviour "record", a US number whose state
\* is not resolved has the enable command issued and answers
\* {"recording": true, "state": "unknown"}.
C8_DefaultRecordAlwaysEnables ==
  \A d \in Deliveries :
    DefaultRecordRun(d) =>
      /\ Issued(d, "PATCH")
      /\ responses[d] =
           << [status_code |-> 200,
               content |-> [recording |-> TRUE, state |-> Str_unknown]] >>

\* C8 as amended: with the default behaviour "record", a US number whose state
\* is not resolved answers {"recording": true, "state": "unknown"} with status
\* 200, and the enable command is issued, once, exactly when the credentials
\* and the call identifier are present and the status query did not return
\* true.
C8_DefaultRecordEnablesUnlessRecording ==
  \A d \in Deliveries :
    DefaultRecordRun(d) =>
      /\ responses[d] =
           << [status_code |-> 200,
               content |-> [recording |-> TRUE, state |-> Str_unknown]] >>
      /\ Count(d, "PATCH") <= 1
      /\ Issued(d, "PATCH") <=>
           ( /\ CredentialsConfigured
             /\ call_id[d] # ""
             /\ current_recording_status[d] # "True" )

\* C8 witness: the setting "Record", a number with the unassigned area code
\* 999, a call that was not recording: the enable command was sent and the
\* delivery answered.
C8_Witness ==
  /\ env_behavior = <<Str_Record_Mixed>>
  /\ phone_number[1] = Num_999
  /\ current_recording_status[1] = "False"
  /\ requests[1] = <<"GET", "PATCH">>
  /\ Done(1)

\* C9: a delivery handled while the API id or the API token is not configured,
\* or whose call identifier is absent, issues no remote call of any kind.
C9_NoRemoteCallWithoutCredentials ==
  \A d \in Deliveries :
    (AIRCALL_API_ID = "" \/ AIRCALL_API_TOKEN = "" \/ call_id[d] = "") =>
      requests[d] = << >>

\* C9 witness: a number of a one-party state was answered while the API token
\* was missing and the API id and the call identifier were present.
C9_Witness ==
  /\ AIRCALL_API_ID # ""
  /\ AIRCALL_API_TOKEN = ""
  /\ call_id[1] # ""
  /\ state[1] = <<"N", "Y">>
  /\ Done(1)

\* the delivery went down an enabling branch: a one-party state, or no state
\* and the default behaviour "record"
EnablingBranch(d) ==
  /\ Done(d)
  /\ IsUsNumber(phone_number[d])
  /\ \/ state[d] # None /\ state[d] \notin TWO_PARTY_STATES
     \/ state[d] = None /\ DEFAULT_RECORDING_BEHAVIOR = Str_record

\* C10: on an enabling branch, when the credentials are not configured or the
\* call identifier is absent, the answer is {"status": "credentials_missing"}
\* with status 500.
C10_CredentialsMissingReported ==
  \A d \in Deliveries :
    ( /\ EnablingBranch(d)
      /\ (AIRCALL_API_ID = "" \/ AIRCALL_API_TOKEN = "" \/ call_id[d] = "") ) =>
      responses[d] =
        << [status_code |-> 500, content |-> [status |-> "credentials_missing"]] >>

\* C11: a delivery that was received eventually returns, whatever its payload
\* (call data, number or call identifier missing) and however its remote
\* calls come out, given that they return; and it returns one response, never
\* none and never two.
C11_EveryDeliveryAnswered ==
  /\ [](\A d \in Deliveries :
          /\ Len(responses[d]) <= 1
          /\ Done(d) <=> Len(responses[d]) = 1)
  /\ \A d \in Deliveries : Received(d) ~> Done(d)

\* C11 witness: the status query and the enable command both failed and the
\* delivery has returned its response.
C11_Witness ==
  /\ requests[1] = <<"GET", "PATCH">>
  /\ results[1] = <<"failed", "failed">>
  /\ Len(responses[1]) = 1

\* C12: a delivery that made remote calls answers with the decision computed
\* from its state, {"recording": true, "state": <state or "unknown">} with
\* status 200, whether those calls succeeded or failed.
C12_FailureKeepsDecision ==
  \A d \in Deliveries :
    (Done(d) /\ requests[d] # << >>) =>
      responses[d] =
        << [status_code |-> 200,
            content |-> [recording |-> TRUE,
                         state |-> IF state[d] = None THEN Str_unknown ELSE state[d]]] >>

\* C12 witness: the status query of a New York number succeeded, its enable
\* command failed, and the delivery has answered.
C12_Witness ==
  /\ state[1] = <<"N", "Y">>
  /\ results[1] = <<"2xx", "failed">>
  /\ Done(1)

\* the event kinds that are call events
CallEventKinds == {"call.created", "call.ringing_on_agent", "call.answered", "call.ended"}

\* C13: a delivery whose event kind is no call event answers
\* {"status": "ignored_event"} with status 200 at once and issues no remote
\* call.
C13_UnrecognizedEventIgnored ==
  \A d \in Deliveries :
    (Received(d) /\ event[d] \notin CallEventKinds) =>
      /\ requests[d] = << >>
      /\ responses[d] =
           << [status_code |-> 200, content |-> [status |-> "ignored_event"]] >>

\* C14: a delivery whose caller state is in the two-party set, handled with
\* credentials and call identifier present, has made one pause-recording
\* request (POST) when it answers.
C14_TwoPartyPauses ==
  \A d \in Deliveries :
    ( /\ Done(d)
      /\ state[d] \in TWO_PARTY_STATES
      /\ CredentialsConfigured
      /\ call_id[d] # "" ) =>
      Count(d, "POST") = 1

\* the description's last word is a state abbreviation
Reduces(description) ==
  /\ description # None
  /\ LastWordUpper(description) \in UsStateCodes

\* C15: for a valid US number whose geolocation description is empty or does
\* not reduce to a state abbreviation, the resolved state is the area-code
\* table's entry for the first three digits of the national number, and
\* unknown when the table has none.
C15_AreaCodeFallback ==
  \A d \in Deliveries :
    ( /\ Received(d)
      /\ IsUsNumber(phone_number[d])
      /\ IsValidNumber(phone_number[d])
      /\ ~Reduces(state_province[d]) ) =>
      state[d] = AREA_CODE_TO_STATE(AreaCodeOf(phone_number[d]))

\* C16: a delivery whose caller state is a one-party state, handled with
\* credentials and call identifier present and whose status query did not
\* report the call as recording, issues one status query and then one enable
\* command, nothing else, and answers {"recording": true, "state": <state>}
\* with status 200.
C16_OnePartyQueriesThenEnables ==
  \A d \in Deliveries :
    ( /\ Done(d)
      /\ state[d] # None /\ state[d] \notin TWO_PARTY_STATES
      /\ CredentialsConfigured
      /\ call_id[d] # ""
      /\ current_recording_status[d] # "True" ) =>
      /\ requests[d] = <<"GET", "PATCH">>
      /\ responses[d] =
           << [status_code |-> 200,
               content |-> [recording |-> TRUE, state |-> state[d]]] >>

\* C16 witness: call "c1" from +12125551234, that the table maps to NY, was
\* reported as not recording, the enable command was accepted and the
\* delivery has answered.
C16_Witness ==
  /\ event[1] = "call.answered"
  /\ call_id[1] = "c1"
  /\ phone_number[1] = Num_NY
  /\ state_province[1] = None
  /\ state[1] = <<"N", "Y">>
  /\ current_recording_status[1] = "False"
  /\ results[1] = <<"2xx", "2xx">>
  /\ Done(1)

\* C17: within a delivery every enable command (PATCH) comes after a status
\* query (GET) of that delivery, which is for the same call identifier, and a
\* delivery whose status query returned true issues no enable command; on the
\* one-party branch and on the default "record" branch alike.
C17_QueryBeforeEnable ==
  \A d \in Deliveries :
    /\ \A i \in 1..Len(requests[d]) :
         requests[d][i] = "PATCH" => \E j \in 1..(i - 1) : requests[d][j] = "GET"
    /\ current_recording_status[d] = "True" => ~Issued(d, "PATCH")

\* C17 witness: a delivery on the one-party branch sent the enable command
\* after its query, and one on the default "record" branch, told that the call
\* is recording, answered after its query alone.
C17_Witness ==
  /\ state[1] = <<"N", "Y">>
  /\ requests[1] = <<"GET", "PATCH">>
  /\ phone_number[2] = Num_999
  /\ state[2] = None
  /\ current_recording_status[2] = "True"
  /\ requests[2] = <<"GET">>
  /\ Done(2)

\* C18: a delivery issues at most one status query and at most one
\* state-changing request, however its remote calls come out; a failed
\* request is not sent again.
C18_NoRetry ==
  \A d \in Deliveries :
    /\ Count(d, "GET") <= 1
    /\ Count(d, "PATCH") + Count(d, "POST") <= 1
    /\ Len(results[d]) <= Len(requests[d])

\* C18 witness: the status query came back without a recording field, the
\* enable command failed, and the delivery answered having sent each once.
C18_Witness ==
  /\ current_recording_status[1] = "None"
  /\ requests[1] = <<"GET", "PATCH">>
  /\ results[1] = <<"2xx", "failed">>
  /\ Done(1)

\* C19: whichever delivery h has a remote call that never returns, every
\* other delivery that was received eventually answers, provided the remote
\* calls of those other deliveries return.
C19_HungCallStallsOnlyItsDelivery ==
  \A h \in Deliveries :
    (\A d \in Deliveries \ {h} : WF_vars(RemoteCallReturns(d))) =>
      (\A d \in Deliveries \ {h} : Received(d) ~> Done(d))

\* C19 witness: delivery 1 is still suspended at its status query while
\* delivery 2, which arrived after it and made remote calls for the same
\* call, has answered.
C19_Witness ==
  /\ pc[1] = "status_query"
  /\ call_id[2] = call_id[1]
  /\ requests[2] = <<"GET", "PATCH">>
  /\ Done(2)

\* C20: once the status query of an enabling branch is over, the enable
\* command has been issued exactly when the query did not return true; a
\* query that failed, or whose response held no recording field, returned
\* None and so has the command issued.
C20_FailsOpen ==
  \A d \in Deliveries :
    current_recording_status[d] # "unset" =>
      /\ Issued(d, "PATCH") <=> current_recording_status[d] # "True"
      /\ (results[d] # << >> /\ results[d][1] = "failed") =>
           /\ current_recording_status[d] = "None"
           /\ Issued(d, "PATCH")
      /\ current_recording_status[d] = "None" => Issued(d, "PATCH")

\* C20 witness: the status query failed and the delivery is suspended at the
\* enable command it sent next.
C20_Witness ==
  /\ results[1] = <<"failed">>
  /\ current_recording_status[1] = "None"
  /\ requests[1] = <<"GET", "PATCH">>
  /\ pc[1] \in {"enable", "default_enable"}

====
